---- MODULE Spec2Model ----
(***************************************************************************)
(* A model of pynescript's parse helpers (ast/parser/helpers.py: parse,    *)
(* parse_file, parse_string) and of its AST dump (ast/helpers.py: dump,    *)
(* _dump_impl, _dump_value_impl).                                          *)
(*                                                                         *)
(* Text is a sequence of units.  A unit is one character wide: "s" is a    *)
(* statement, "v1" and "v2" are version directives (comments) capturing    *)
(* "1" and "2", "\t" is a tab, "\n" a line feed and " " a blank.           *)
(***************************************************************************)
EXTENDS Integers, Sequences, FiniteSets, TLC

\* Longest text handed to an entry point, in units.
MaxLen == 2

\* Default of the tab_width parameter.
DefaultTabWidth == 4

\* Default of the recursion_limit parameter.
DefaultRecursionLimit == 1000

Threads == {"t1", "t2"}

\* The thread of a single-threaded program.
MainThread == "t1"

Alphabet == {"s", "v1", "v2", "\t", "\n"}

RECURSIVE TextsOfLen(_)
TextsOfLen(n) ==
    IF n = 0 THEN {<<>>}
    ELSE {Append(t, c) : t \in TextsOfLen(n - 1), c \in Alphabet}

Texts == UNION {TextsOfLen(n) : n \in 0..MaxLen}

RECURSIVE Spaces(_)
Spaces(n) == IF n <= 0 THEN <<>> ELSE <<" ">> \o Spaces(n - 1)

\* str.expandtabs(tab_width): a tab becomes the blanks that reach the next
\* multiple of the width; a line feed starts the columns again.
RECURSIVE ExpandFrom(_, _, _)
ExpandFrom(text, width, col) ==
    IF text = <<>> THEN <<>>
    ELSE LET c == Head(text) IN
         IF c = "\t"
         THEN LET n == IF width > 0 THEN width - (col % width) ELSE 0 IN
              Spaces(n) \o ExpandFrom(Tail(text), width, col + n)
         ELSE IF c = "\n"
         THEN <<c>> \o ExpandFrom(Tail(text), width, 0)
         ELSE <<c>> \o ExpandFrom(Tail(text), width, col + 1)

ExpandTabs(text, width) == ExpandFrom(text, width, 0)

\* str.split("\n"): the pieces between line feeds, always at least one.
RECURSIVE SplitFrom(_, _)
SplitFrom(text, cur) ==
    IF text = <<>> THEN <<cur>>
    ELSE IF Head(text) = "\n" THEN <<cur>> \o SplitFrom(Tail(text), <<>>)
    ELSE SplitFrom(Tail(text), Append(cur, Head(text)))

Split(text) == SplitFrom(text, <<>>)

\* str.splitlines(): as Split, without the empty piece after a final line feed,
\* and no piece at all for the empty text.
SplitLines(text) ==
    LET p == Split(text) IN
    IF p[Len(p)] = <<>> THEN SubSeq(p, 1, Len(p) - 1) ELSE p

\* "\n".join(lines)
RECURSIVE Join(_)
Join(lines) ==
    IF lines = <<>> THEN <<>>
    ELSE IF Len(lines) = 1 THEN lines[1]
    ELSE lines[1] \o <<"\n">> \o Join(Tail(lines))

\* str.lstrip(): leading white space removed.
RECURSIVE LStrip(_)
LStrip(line) ==
    IF line # <<>> /\ Head(line) \in {" ", "\t", "\n"} THEN LStrip(Tail(line))
    ELSE line

StartsWith(line, prefix) ==
    Len(line) >= Len(prefix) /\ SubSeq(line, 1, Len(prefix)) = prefix

Max(S) == CHOOSE x \in S : \A y \in S : y <= x

(***************************************************************************)
(* The directive preprocessor (parse_string, lines 40-51) and the grammar  *)
(* engine it calls.  The grammar rules (pynescript.ast.parser.grammars)    *)
(* are an external collaborator, modelled by their interface.              *)
(***************************************************************************)

IsDirective(c) == c \in {"v1", "v2"}

Captured(c) == IF c = "v1" THEN "1" ELSE "2"

\* version_comment_expr.search_string(source): one result per version
\* directive of the text, in text order; each carries its captured "version".
RECURSIVE SearchVersions(_)
SearchVersions(text) ==
    IF text = <<>> THEN <<>>
    ELSE IF IsDirective(Head(text))
         THEN <<Captured(Head(text))>> \o SearchVersions(Tail(text))
         ELSE SearchVersions(Tail(text))

\* comment_suppressed_expr.transform_string(source): the text without its
\* comment spans (a version directive is a comment); line feeds stay.
RECURSIVE SuppressComments(_)
SuppressComments(text) ==
    IF text = <<>> THEN <<>>
    ELSE IF IsDirective(Head(text)) THEN SuppressComments(Tail(text))
         ELSE <<Head(text)>> \o SuppressComments(Tail(text))

\* A parse_string that keeps the last directive: version_results[-1].
ScriptVersionLast(version_results) ==
    IF version_results # <<>> THEN version_results[Len(version_results)]
    ELSE "None"

\* Lines 43-47: the version of the first result, None when there is none.
ScriptVersion(version_results) ==
    IF version_results # <<>> THEN version_results[1] ELSE "None"

RECURSIVE CountStatements(_)
CountStatements(text) ==
    IF text = <<>> THEN 0
    ELSE (IF Head(text) = "s" THEN 1 ELSE 0) + CountStatements(Tail(text))

NoOutcome == [kind |-> "none", n |-> 0, lineno |-> 0, col |-> 0]

\* Where a ParseException may point: a column of a line of the text the
\* grammar was given (pyparsing counts the line feeds before the failing
\* location), the end of a line included.
ErrorPositions(buffer) ==
    LET lines == Split(buffer) IN
    UNION {{<<l, c>> : c \in 1..(Len(lines[l]) + 1)} : l \in 1..Len(lines)}

\* script_expr.parse_string(buffer, parse_all=parse_all): parse results
\* holding a Script node with the statements matched (a prefix of them when
\* parse_all is off), empty parse results when nothing was matched, a
\* ParseException with a line and a column, or an error of another kind
\* (the recursive descent running out of stack).
GrammarOutcomes(buffer, parse_all) ==
    LET n == CountStatements(buffer) IN
    {[kind |-> "results", n |-> k, lineno |-> 0, col |-> 0] :
        k \in (IF parse_all THEN {n} ELSE 0..n)}
    \cup (IF n = 0 \/ ~parse_all
          THEN {[kind |-> "empty", n |-> 0, lineno |-> 0, col |-> 0]} ELSE {})
    \cup {[kind |-> "ParseException", n |-> 0, lineno |-> p[1], col |-> p[2]] :
            p \in ErrorPositions(buffer)}
    \cup {[kind |-> "RecursionError", n |-> 0, lineno |-> 0, col |-> 0]}

(***************************************************************************)
(* The debug diagnostic of parse_string.                                   *)
(***************************************************************************)

Ruler == <<"1", "2", "3", "4", "5", "6", "7", "8", "9", "0">>

RECURSIVE Repeat(_, _)
Repeat(s, n) == IF n <= 0 THEN <<>> ELSE s \o Repeat(s, n - 1)

\* pyparsing.testing.with_line_numbers(s): nothing for a text without lines;
\* otherwise two ruler lines, then every line as "<number>:<line>|", each
\* followed by a line feed.  (Texts here have fewer than 10 characters and
\* lines, so a line number is one digit wide and the ruler has no
\* hundreds line.)
WithLineNumbers(s) ==
    LET lines == SplitLines(ExpandTabs(s, 8)) IN
    IF lines = <<>> THEN <<>>
    ELSE LET max_line_len == Max({Len(lines[i]) : i \in 1..Len(lines)})
             groups == (max_line_len + 9) \div 10
             lead == Spaces(2)
             header1 == lead \o Repeat(Spaces(9) \o <<"1">>, groups)
             header2 == lead \o Repeat(Ruler, groups)
             numbered == [i \in 1..Len(lines) |->
                            <<ToString(i), ":">> \o lines[i] \o <<"|">>]
         IN header1 \o <<"\n">> \o header2 \o <<"\n">> \o Join(numbered) \o <<"\n">>

\* len(line.split(":", 1)[0]): the characters before the first colon.
RECURSIVE BeforeColon(_)
BeforeColon(line) ==
    IF line = <<>> \/ Head(line) = ":" THEN 0 ELSE 1 + BeforeColon(Tail(line))

\* Lines 62-71: where the annotated text has its line "1:".  The loop runs
\* i over range(len(<the annotated string>)) and indexes the list of
\* annotated lines with it: an index past the list is an IndexError.
FindStart(formatted, length) ==
    LET hits == {i \in 0..(length - 1) :
                    /\ i < Len(formatted)
                    /\ StartsWith(LStrip(formatted[i + 1]), <<"1", ":">>)}
        first == CHOOSE i \in hits : \A j \in hits : i <= j
    IN  IF hits = {}
        THEN [error |-> length > Len(formatted), line |-> 0, col |-> 0]
        ELSE [error |-> FALSE, line |-> first,
              col |-> BeforeColon(formatted[first + 1]) + 1]

NoDebug ==
    [source_lines |-> <<>>, formatted |-> <<>>, error |-> FALSE,
     start_line |-> 0, start_col |-> 0]

\* Lines 53-71: the locals the debug mode sets before the parse.
DebugPrepare(source, tab_width) ==
    LET source_formatted_for_debug == WithLineNumbers(ExpandTabs(source, tab_width))
        start == FindStart(Split(source_formatted_for_debug),
                           Len(source_formatted_for_debug))
    IN  [source_lines |-> Split(source),
         formatted |-> Split(source_formatted_for_debug),
         error |-> start.error,
         start_line |-> start.line,
         start_col |-> start.col]

\* pynescript.ast.parser.utils.calc_width: the rendered width of a text,
\* a tab reaching the next multiple of the tab width.
calc_width(text, tab_width) == Len(ExpandTabs(text, tab_width))

NoPrint == [lines |-> 0, carets |-> <<>>, error |-> FALSE]

\* source_line[: (err.col - 1)], line 93.
UntilCol(source_line, col) ==
    SubSeq(source_line, 1,
           IF col - 1 < Len(source_line) THEN col - 1 ELSE Len(source_line))

\* A handler that takes the failing source line by the index of the
\* annotated line: source_lines[i].
PrintDiagnosticByIndex(d, tab_width, lineno, col) ==
    IF (lineno + d.start_line - 1) \notin 0..(Len(d.formatted) - 1)
    THEN [lines |-> Len(d.formatted), carets |-> <<>>, error |-> FALSE]
    ELSE IF lineno + d.start_line - 1 >= Len(d.source_lines)
    THEN [lines |-> lineno + d.start_line, carets |-> <<>>, error |-> TRUE]
    ELSE [lines |-> Len(d.formatted),
          carets |-> <<d.start_col
                       + calc_width(UntilCol(d.source_lines[lineno + d.start_line],
                                             col),
                                    tab_width)>>,
          error |-> FALSE]

\* Lines 80-104: prints every annotated line and, below the one whose
\* number is err.lineno, the caret and the message.  d holds the locals of
\* lines 53-71.  error: indexing source_lines past its end (an IndexError)
\* stopped the printing.
PrintDiagnostic(d, tab_width, lineno, col) ==
    IF (lineno + d.start_line - 1) \notin 0..(Len(d.formatted) - 1)
    THEN [lines |-> Len(d.formatted), carets |-> <<>>, error |-> FALSE]
    ELSE IF lineno - 1 >= Len(d.source_lines)
    THEN [lines |-> lineno + d.start_line, carets |-> <<>>, error |-> TRUE]
    ELSE [lines |-> Len(d.formatted),
          carets |-> <<d.start_col
                       + calc_width(UntilCol(d.source_lines[lineno], col),
                                    tab_width)>>,
          error |-> FALSE]

(***************************************************************************)
(* The AST dump (ast/helpers.py).  A value is a scalar, a list of values   *)
(* or a node; a node has a type name and its fields in their own order.    *)
(* The node types are an external schema (pynescript.ast.types); the ones  *)
(* here stand for any.                                                     *)
(***************************************************************************)

Scalar(r) == [tag |-> "scalar", repr |-> r]
List(items) == [tag |-> "list", items |-> items]
Node(type, fields) == [tag |-> "node", type |-> type, fields |-> fields]
Field(name, value) == [name |-> name, value |-> value]

\* iter_fields(node): the (name, value) pairs, in the node's order.
iter_fields(node) == node.fields

\* repr(value): a scalar's literal, a list's bracketed items; a node's own
\* repr is the node class's business.
RECURSIVE Repr(_)
Repr(value) ==
    IF value.tag = "scalar" THEN <<value.repr>>
    ELSE IF value.tag = "node" THEN <<"<", value.type, ">">>
    ELSE LET items == value.items
             RECURSIVE Parts(_)
             Parts(i) == IF i > Len(items) THEN <<>>
                         ELSE (IF i > 1 THEN <<",", " ">> ELSE <<>>)
                              \o Repr(items[i]) \o Parts(i + 1)
         IN <<"[">> \o Parts(1) \o <<"]">>

RECURSIVE dump_value_impl(_, _, _)
RECURSIVE dump_impl(_, _, _)

\* _dump_value_impl, lines 12-25.
dump_value_impl(value, indent, depth) ==
    IF value.tag = "node" THEN dump_impl(value, indent, depth)
    ELSE IF value.tag = "list" /\ Len(value.items) > 0
    THEN LET lines == [i \in 1..Len(value.items) |->
                        Repeat(indent, depth + 1)
                        \o dump_value_impl(value.items[i], indent, depth + 1)
                        \o <<",">>]
         IN Join(<<(<<"[">>)>> \o lines \o <<Repeat(indent, depth) \o <<"]">>>>)
    ELSE Repr(value)

\* A _dump_impl that indents a node's fields like the node itself.
dump_impl_same_level(node, indent, depth) ==
    LET class_name == node.type
        class_params == iter_fields(node)
    IN  IF indent # <<>> /\ Len(class_params) > 0
        THEN LET lines == [i \in 1..Len(class_params) |->
                            Repeat(indent, depth)
                            \o <<class_params[i].name, "=">>
                            \o dump_value_impl(class_params[i].value, indent, depth + 1)
                            \o <<",">>]
             IN Join(<<(<<class_name, "(">>)>> \o lines
                     \o <<Repeat(indent, depth) \o <<")">>>>)
        ELSE <<class_name, "(", ")">>

\* _dump_impl, lines 28-43.
dump_impl(node, indent, depth) ==
    LET class_name == node.type
        class_params == iter_fields(node)
    IN  IF indent # <<>> /\ Len(class_params) > 0
        THEN LET lines == [i \in 1..Len(class_params) |->
                            Repeat(indent, depth + 1)
                            \o <<class_params[i].name, "=">>
                            \o dump_value_impl(class_params[i].value, indent, depth + 1)
                            \o <<",">>]
             IN Join(<<(<<class_name, "(">>)>> \o lines
                     \o <<Repeat(indent, depth) \o <<")">>>>)
        ELSE LET RECURSIVE Params(_)
                 Params(i) ==
                    IF i > Len(class_params) THEN <<>>
                    ELSE (IF i > 1 THEN <<",", " ">> ELSE <<>>)
                         \o <<class_params[i].name, "=">>
                         \o Repr(class_params[i].value) \o Params(i + 1)
             IN <<class_name, "(">> \o Params(1) \o <<")">>

\* The indent argument of dump: None, a column count or a string.
IndentNone == [tag |-> "none", n |-> 0, s |-> <<>>]
IndentInt(n) == [tag |-> "int", n |-> n, s |-> <<>>]
IndentStr(s) == [tag |-> "str", n |-> 0, s |-> s]

\* dump, lines 46-51: None is 0 and a count is that many blanks.
IndentString(indent) ==
    IF indent.tag = "str" THEN indent.s
    ELSE Spaces(indent.n)

dump(node, indent) == dump_impl(node, IndentString(indent), 0)

(***************************************************************************)
(* Arguments of the entry points.  kind is the argument's class; text is   *)
(* what it holds: a str's characters, or the content of the file a path    *)
(* names, of a byte buffer, of a stream.  fs says what the file system     *)
(* makes of a str or a path: "file" (an existing readable file), "dir"     *)
(* (an existing directory: Path("") is "."), "absent" (no such file) or    *)
(* "toolong" (no such file, and a component longer than the file system's  *)
(* name limit, which any long enough script text is).                      *)
(***************************************************************************)

Arg(kind, text, fs) == [kind |-> kind, text |-> text, fs |-> fs]

NoArg == Arg("none", <<>>, "n/a")

Args ==
    {Arg("str", t, "absent") : t \in Texts \ {<<>>}}
    \cup {Arg("str", t, "toolong") : t \in TextsOfLen(MaxLen)}
    \cup {Arg("str", <<>>, "dir")}
    \cup {Arg(k, t, "file") : k \in {"str", "Path", "PathLike"}, t \in Texts}
    \cup {Arg("Path", <<>>, "absent")}
    \cup {Arg(k, t, "n/a") : k \in {"bytes", "RawIO", "BufferedIO", "TextIO"},
                              t \in Texts}
    \cup {Arg("int", <<>>, "n/a")}

\* isinstance(f, cls) for the classes parse and parse_file test.  A pathlib
\* Path is path-like, another path-like object is no Path; io.BytesIO and
\* the stream of open(..., "rb") are buffered streams, not raw ones.
Classes(kind) ==
    CASE kind = "str" -> {"str"}
      [] kind = "Path" -> {"Path", "PathLike"}
      [] kind = "PathLike" -> {"PathLike"}
      [] kind = "bytes" -> {"bytes"}
      [] kind = "RawIO" -> {"IOBase", "RawIOBase"}
      [] kind = "BufferedIO" -> {"IOBase", "BufferedIOBase"}
      [] kind = "TextIO" -> {"IOBase", "TextIOBase"}
      [] OTHER -> {}

isinstance(f, cls) == cls \in Classes(f.kind)

Options(parse_all, expand_tabs, debug, tab_width, recursion_limit) ==
    [parse_all |-> parse_all, expand_tabs |-> expand_tabs, debug |-> debug,
     tab_width |-> tab_width, recursion_limit |-> recursion_limit]

NoOptions == Options(FALSE, FALSE, FALSE, 0, 0)

\* The options a caller gives: the defaults or other values for parse_all,
\* tab_width and recursion_limit, with every choice of expand_tabs and debug.
OptionSets ==
    {Options(TRUE, e, d, DefaultTabWidth, DefaultRecursionLimit) :
        e \in BOOLEAN, d \in BOOLEAN}
    \cup {Options(FALSE, e, d, 2, 2000) : e \in BOOLEAN, d \in BOOLEAN}

\* The recursion ceiling the interpreter may start with.
InitialCeilings == {1000, 3000}

NoExc == [name |-> "none", lineno |-> 0, col |-> 0]
Exc(name) == [name |-> name, lineno |-> 0, col |-> 0]

NoResult == [kind |-> "none", body |-> 0, version |-> "None"]

\* A thread that is in no call.
Idle ==
    [pc |-> "idle", stk |-> <<>>, argkind |-> "none", argfs |-> "n/a",
     given |-> NoOptions,
     f |-> NoArg, opts |-> NoOptions, stack |-> 0, handle |-> "none",
     called |-> <<>>, passed |-> NoOptions,
     source |-> <<>>, version |-> "None", buffer |-> <<>>, debug |-> NoDebug,
     old |-> 0, ceil0 |-> 0, outcome |-> NoOutcome, printed |-> NoPrint,
     exc |-> NoExc, result |-> NoResult]

NoDump == [node |-> Scalar("None"), indent |-> IndentNone, out |-> <<>>, done |-> FALSE]

VARIABLES
    ceiling,    \* sys.getrecursionlimit(): one per process
    fr,         \* per thread: where its call is, and the call's locals
    sched,      \* "sequential": only the main thread calls; "threaded": all do
    dumped,     \* the last dump call: its arguments and what it returned
    elevations  \* how many ceilings were set by an entered context manager
                \* that has not left yet

vars == <<ceiling, fr, sched, dumped, elevations>>

(***************************************************************************)
(* parse_file's input normalizer, lines 131-146.                           *)
(***************************************************************************)

\* A parse_file that opens the file without registering it: f = open(f).
OpenPathUnregistered(f) ==
    IF f.fs = "file"
    THEN [f |-> Arg("TextIO", f.text, "n/a"), handle |-> "open", stack |-> 0,
          exc |-> NoExc]
    ELSE [f |-> f, handle |-> "none", stack |-> 0, exc |-> Exc("OSError")]

\* Line 137, stack.enter_context(open(f, encoding=encoding)): the file is
\* opened as a text stream and registered with the ExitStack; open raises
\* OSError for a path that names no readable file.
OpenPath(f) ==
    IF f.fs = "file"
    THEN [f |-> Arg("TextIO", f.text, "n/a"), handle |-> "open", stack |-> 1,
          exc |-> NoExc]
    ELSE [f |-> f, handle |-> "none", stack |-> 0, exc |-> Exc("OSError")]

\* A parse_file without the test at lines 145-146.
UnsupportedNever(has_source) == FALSE

\* Lines 145-146: no source was read.
Unsupported(has_source) == ~has_source

\* Lines 132-146.  readable: f.read() decodes the stream's bytes (it raises
\* UnicodeDecodeError when they are not text in the encoding).
Normalize(f, readable) ==
    LET f1 == IF isinstance(f, "str") THEN [f EXCEPT !.kind = "Path"] ELSE f
        o == IF isinstance(f1, "Path") THEN OpenPath(f1)
             ELSE [f |-> f1, handle |-> "none", stack |-> 0, exc |-> NoExc]
        f2 == o.f
        \* BytesIO(f)
        f3 == IF isinstance(f2, "bytes") THEN [f2 EXCEPT !.kind = "BufferedIO"]
              ELSE f2
        \* TextIOWrapper(f, encoding=encoding)
        f4 == IF isinstance(f3, "RawIOBase") THEN [f3 EXCEPT !.kind = "TextIO"]
              ELSE f3
        reads == isinstance(f4, "TextIOBase")
    IN  IF o.exc # NoExc
        THEN [f |-> f2, handle |-> o.handle, stack |-> o.stack,
              source |-> <<>>, exc |-> o.exc]
        ELSE IF reads /\ ~readable
        THEN [f |-> f4, handle |-> o.handle, stack |-> o.stack,
              source |-> <<>>, exc |-> Exc("UnicodeDecodeError")]
        ELSE IF Unsupported(reads)
        THEN [f |-> f4, handle |-> o.handle, stack |-> o.stack,
              source |-> <<>>, exc |-> Exc("TypeError")]
        ELSE [f |-> f4, handle |-> o.handle, stack |-> o.stack,
              source |-> IF reads THEN f4.text ELSE <<>>, exc |-> NoExc]

\* The keyword arguments parse and parse_file hand on, lines 171-176,
\* 181-186 and 150-154: each option under its own name.
PassOptions(o) ==
    [parse_all |-> o.parse_all, expand_tabs |-> o.expand_tabs,
     debug |-> o.debug, tab_width |-> o.tab_width,
     recursion_limit |-> o.recursion_limit]

\* Path(source).exists(), line 169: an OSError other than "no such file"
\* (a name too long) is raised, not answered.
PathExists(f) ==
    IF f.fs \in {"file", "dir"} THEN "yes"
    ELSE IF f.fs = "toolong" THEN "OSError"
    ELSE "no"

\* A frame that enters parse_string(source, ...) with the options o.
EnterParseString(frame, source, o) ==
    [frame EXCEPT !.pc = "ps",
                  !.stk = Append(@, "parse_string"),
                  !.called = Append(@, "parse_string"),
                  !.source = source,
                  !.opts = o,
                  !.ceil0 = ceiling]

\* A frame whose innermost function returns or raises to its caller:
\* parse_file goes on to leave its ExitStack, parse adds nothing.
Unwind(frame) ==
    LET n == Len(frame.stk) IN
    [frame EXCEPT !.stk = SubSeq(@, 1, n - 1),
                  !.pc = IF n > 1 /\ frame.stk[n - 1] = "parse_file"
                         THEN "pf_exit" ELSE "done"]

(***************************************************************************)
(* The calls.                                                              *)
(***************************************************************************)

\* Threads that run concurrently call parse_string on these.
ThreadTexts == {<<"s">>}
ThreadOptions ==
    {Options(TRUE, TRUE, FALSE, DefaultTabWidth, DefaultRecursionLimit),
     Options(FALSE, TRUE, FALSE, 2, 2000)}

CanBegin(t) ==
    /\ fr[t].pc = "idle"
    /\ ~dumped.done
    /\ sched = "threaded" \/ t = MainThread

\* A caller calls parse(source, ...).
CallParse(t) ==
    /\ CanBegin(t)
    /\ sched = "sequential"
    /\ \E a \in Args, o \in OptionSets :
        fr' = [fr EXCEPT ![t] = [Idle EXCEPT !.pc = "parse",
                                             !.stk = <<"parse">>,
                                             !.called = <<"parse">>,
                                             !.argkind = a.kind,
                                             !.argfs = a.fs,
                                             !.given = o,
                                             !.f = a,
                                             !.opts = o]]
    /\ UNCHANGED <<ceiling, sched, dumped, elevations>>

\* A caller calls parse_file(f, ...).
CallParseFile(t) ==
    /\ CanBegin(t)
    /\ sched = "sequential"
    /\ \E a \in Args, o \in OptionSets :
        fr' = [fr EXCEPT ![t] = [Idle EXCEPT !.pc = "pf",
                                             !.stk = <<"parse_file">>,
                                             !.called = <<"parse_file">>,
                                             !.argkind = a.kind,
                                             !.argfs = a.fs,
                                             !.given = o,
                                             !.f = a,
                                             !.opts = o]]
    /\ UNCHANGED <<ceiling, sched, dumped, elevations>>

\* A caller calls parse_string(source, ...).
CallParseString(t) ==
    /\ CanBegin(t)
    /\ \E text \in (IF sched = "threaded" THEN ThreadTexts ELSE Texts),
          o \in (IF sched = "threaded" THEN ThreadOptions ELSE OptionSets) :
        fr' = [fr EXCEPT ![t] =
                EnterParseString([Idle EXCEPT !.argkind = "str", !.given = o],
                                 text, o)]
    /\ UNCHANGED <<ceiling, sched, dumped, elevations>>

\* parse, lines 169-187.
Parse(t) ==
    /\ fr[t].pc = "parse"
    /\ LET f == fr[t].f
           exists == IF isinstance(f, "str") THEN PathExists(f) ELSE "n/a"
           o == PassOptions(fr[t].opts)
       IN  fr' = [fr EXCEPT ![t] =
                IF exists = "OSError"
                THEN Unwind([@ EXCEPT !.exc = Exc("OSError")])
                ELSE IF isinstance(f, "str") /\ exists = "no"
                THEN EnterParseString([@ EXCEPT !.passed = o], f.text, o)
                ELSE [@ EXCEPT !.pc = "pf",
                               !.stk = Append(@, "parse_file"),
                               !.called = Append(@, "parse_file"),
                               !.passed = o,
                               !.opts = o]]
    /\ UNCHANGED <<ceiling, sched, dumped, elevations>>

\* parse_file, lines 128-155: the input is normalized and parse_string
\* called, or the normalizer raises.
ParseFile(t) ==
    /\ fr[t].pc = "pf"
    /\ \E readable \in BOOLEAN :
        LET n == Normalize(fr[t].f, readable)
            g == [fr[t] EXCEPT !.f = n.f, !.handle = n.handle, !.stack = n.stack]
        IN  fr' = [fr EXCEPT ![t] =
                    IF n.exc # NoExc
                    THEN [g EXCEPT !.exc = n.exc, !.pc = "pf_exit"]
                    ELSE EnterParseString(g, n.source, PassOptions(g.opts))]
    /\ UNCHANGED <<ceiling, sched, dumped, elevations>>

\* parse_file leaves "with ExitStack() as stack", line 131, returning
\* (line 157) or raising: what the stack registered is closed.
ExitStackClose(t) ==
    /\ fr[t].pc = "pf_exit"
    /\ fr' = [fr EXCEPT ![t] =
                Unwind([@ EXCEPT !.handle = IF @ = "open" /\ fr[t].stack > 0
                                            THEN "closed" ELSE @,
                                 !.stack = 0])]
    /\ UNCHANGED <<ceiling, sched, dumped, elevations>>

(***************************************************************************)
(* parse_string.                                                           *)
(***************************************************************************)

\* Lines 37-71: tabs expanded, the version searched, the comments
\* suppressed and, under debug, the annotated text prepared.
Preprocess(t) ==
    /\ fr[t].pc = "ps"
    /\ LET o == fr[t].opts
           source == IF o.expand_tabs THEN ExpandTabs(fr[t].source, o.tab_width)
                     ELSE fr[t].source
           g == [fr[t] EXCEPT !.source = source,
                              !.version = ScriptVersion(SearchVersions(source)),
                              !.buffer = SuppressComments(source),
                              !.debug = IF o.debug
                                        THEN DebugPrepare(source, o.tab_width)
                                        ELSE NoDebug]
       IN  fr' = [fr EXCEPT ![t] =
                    IF g.debug.error
                    THEN Unwind([g EXCEPT !.exc = Exc("IndexError")])
                    ELSE [g EXCEPT !.pc = "rl_save"]]
    /\ UNCHANGED <<ceiling, sched, dumped, elevations>>

\* recursion_limit_context(recursion_limit), entered at line 74: the
\* ceiling in force is read ...
SaveLimit(t) ==
    /\ fr[t].pc = "rl_save"
    /\ fr' = [fr EXCEPT ![t] = [@ EXCEPT !.old = ceiling, !.pc = "rl_set"]]
    /\ UNCHANGED <<ceiling, sched, dumped, elevations>>

\* ... and the one asked for is set.
SetLimit(t) ==
    /\ fr[t].pc = "rl_set"
    /\ ceiling' = fr[t].opts.recursion_limit
    /\ elevations' = elevations + 1
    /\ fr' = [fr EXCEPT ![t] = [@ EXCEPT !.pc = "grammar"]]
    /\ UNCHANGED <<sched, dumped>>

\* Lines 73-108: after the with statement, the handler of a ParseException,
\* the way out for another error, or the code after the try.
AfterWith(outcome) ==
    IF outcome.kind = "ParseException" THEN "ps_except"
    ELSE IF outcome.kind = "RecursionError" THEN "ps_raise"
    ELSE "ps_finish"

\* A parse_string that sets the limit and sets it back after the parse, with
\* no context manager: an exception passes the setting back by.
AfterGrammarNoFinally(outcome) ==
    IF outcome.kind \in {"ParseException", "RecursionError"}
    THEN AfterWith(outcome) ELSE "rl_exit"

\* A parse_string that sets the limit and never sets it back.
AfterGrammarNoExit(outcome) == AfterWith(outcome)

\* Lines 73-79: the with statement leaves through the context manager's
\* exit, whether its body returned or raised.
AfterGrammar(outcome) == "rl_exit"

\* Lines 75-77: the grammar parses the comment-free buffer.
Grammar(t) ==
    /\ fr[t].pc = "grammar"
    /\ \E outcome \in GrammarOutcomes(fr[t].buffer, fr[t].opts.parse_all) :
        fr' = [fr EXCEPT ![t] = [@ EXCEPT !.outcome = outcome,
                                          !.pc = AfterGrammar(outcome)]]
    /\ UNCHANGED <<ceiling, sched, dumped, elevations>>

\* The context manager's exit: the ceiling it read is set again.
RestoreLimit(t) ==
    /\ fr[t].pc = "rl_exit"
    /\ ceiling' = fr[t].old
    /\ elevations' = elevations - 1
    /\ fr' = [fr EXCEPT ![t] = [@ EXCEPT !.pc = AfterWith(fr[t].outcome)]]
    /\ UNCHANGED <<sched, dumped>>

\* Line 106, raise err: the exception the grammar raised.
Reraise(err) == [name |-> "ParseException", lineno |-> err.lineno, col |-> err.col]

\* Lines 79-106: except ParseException.
Except(t) ==
    /\ fr[t].pc = "ps_except"
    /\ LET o == fr[t].opts
           err == fr[t].outcome
           printed == IF o.debug
                      THEN PrintDiagnostic(fr[t].debug, o.tab_width,
                                           err.lineno, err.col)
                      ELSE NoPrint
       IN  fr' = [fr EXCEPT ![t] =
                    Unwind([@ EXCEPT !.printed = printed,
                                     !.exc = IF printed.error
                                             THEN Exc("IndexError")
                                             ELSE Reraise(err)])]
    /\ UNCHANGED <<ceiling, sched, dumped, elevations>>

\* An error that is no ParseException passes through parse_string.
Propagate(t) ==
    /\ fr[t].pc = "ps_raise"
    /\ fr' = [fr EXCEPT ![t] = Unwind([@ EXCEPT !.exc = Exc(fr[t].outcome.kind)])]
    /\ UNCHANGED <<ceiling, sched, dumped, elevations>>

\* A parse_string without the else branch of line 111: script_node stays
\* None when the parse results are empty.
ScriptNodeNoEmpty(outcome) ==
    IF outcome.kind = "results"
    THEN [kind |-> "Script", body |-> outcome.n, version |-> "None"]
    ELSE NoResult

\* Lines 108-111: the grammar's Script node (its version is None: the
\* grammar never saw the directive), or an empty one.
ScriptNode(outcome) ==
    IF outcome.kind = "results"
    THEN [kind |-> "Script", body |-> outcome.n, version |-> "None"]
    ELSE [kind |-> "Script", body |-> 0, version |-> "None"]

\* Lines 113-114.
AttachVersion(script_node, script_version) ==
    IF script_version # "None"
    THEN [script_node EXCEPT !.version = script_version]
    ELSE script_node

\* Lines 108-116.
Finish(t) ==
    /\ fr[t].pc = "ps_finish"
    /\ fr' = [fr EXCEPT ![t] =
                Unwind([@ EXCEPT !.result =
                            AttachVersion(ScriptNode(fr[t].outcome), fr[t].version)])]
    /\ UNCHANGED <<ceiling, sched, dumped, elevations>>

\* The caller has the result or the exception.
Return(t) ==
    /\ fr[t].pc = "done"
    /\ fr' = [fr EXCEPT ![t] = Idle]
    /\ UNCHANGED <<ceiling, sched, dumped, elevations>>

(***************************************************************************)
(* dump.                                                                   *)
(***************************************************************************)

Leaves == {Scalar("1"), List(<<>>), Node("Load", <<>>)}

NodesOver(values) ==
    {Node("Expr", <<Field("value", v)>>) : v \in values}
    \cup {Node("Call", <<Field("func", v), Field("args", w)>>) :
            v \in values, w \in values}

ListsOver(values) ==
    {List(<<v>>) : v \in values} \cup {List(<<v, w>>) : v \in values, w \in values}

Level1 == Leaves \cup NodesOver(Leaves) \cup ListsOver(Leaves)

DumpNodes == {Node("Load", <<>>)} \cup NodesOver(Level1)

Indents ==
    {IndentNone, IndentInt(0), IndentInt(1), IndentInt(2), IndentStr(<<>>),
     IndentStr(<<"\t">>)}

\* A caller calls dump(node, indent).
Dump ==
    /\ ~dumped.done
    /\ \A t \in Threads : fr[t].pc = "idle"
    /\ \E node \in DumpNodes, indent \in Indents :
        dumped' = [node |-> node, indent |-> indent, out |-> dump(node, indent),
                   done |-> TRUE]
    /\ UNCHANGED <<ceiling, fr, sched, elevations>>

DumpReturn ==
    /\ dumped.done
    /\ dumped' = NoDump
    /\ UNCHANGED <<ceiling, fr, sched, elevations>>

(***************************************************************************)
(* The specifications.                                                     *)
(***************************************************************************)

Init ==
    /\ ceiling \in InitialCeilings
    /\ fr = [t \in Threads |-> Idle]
    /\ sched = "sequential"
    /\ dumped = NoDump
    /\ elevations = 0

\* The same program, called from threads that run concurrently as well.
InitThreads ==
    /\ ceiling \in InitialCeilings
    /\ fr = [t \in Threads |-> Idle]
    /\ sched \in {"sequential", "threaded"}
    /\ dumped = NoDump
    /\ elevations = 0

Next ==
    \/ \E t \in Threads : CallParse(t)
    \/ \E t \in Threads : CallParseFile(t)
    \/ \E t \in Threads : CallParseString(t)
    \/ \E t \in Threads : Parse(t)
    \/ \E t \in Threads : ParseFile(t)
    \/ \E t \in Threads : ExitStackClose(t)
    \/ \E t \in Threads : Preprocess(t)
    \/ \E t \in Threads : SaveLimit(t)
    \/ \E t \in Threads : SetLimit(t)
    \/ \E t \in Threads : Grammar(t)
    \/ \E t \in Threads : RestoreLimit(t)
    \/ \E t \in Threads : Except(t)
    \/ \E t \in Threads : Propagate(t)
    \/ \E t \in Threads : Finish(t)
    \/ \E t \in Threads : Return(t)
    \/ Dump
    \/ DumpReturn

Spec == Init /\ [][Next]_vars

SpecThreads == InitThreads /\ [][Next]_vars

(***************************************************************************)
(* The claims.                                                             *)
(***************************************************************************)

Has(seq, x) == \E i \in 1..Len(seq) : seq[i] = x

\* The function the caller called.
Entry(t) == IF fr[t].called = <<>> THEN "none" ELSE fr[t].called[1]

\* parse_string was called and has returned or raised.
Returned(t) ==
    Has(fr[t].called, "parse_string") /\ ~Has(fr[t].stk, "parse_string")

\* C1: after a call of parse_string, whether the grammar returned a result
\* or raised, the recursion ceiling is what it was when the call began.
C1_CeilingRestored ==
    \A t \in Threads : Returned(t) => ceiling = fr[t].ceil0

C1_Witness ==
    \E t \in Threads :
        /\ fr[t].pc = "done"
        /\ Returned(t)
        /\ fr[t].exc.name = "ParseException"
        /\ fr[t].opts.recursion_limit # fr[t].ceil0

\* The input kinds parse_file declares: text naming a path, a path-like
\* object, a byte buffer, a binary stream, a text stream.
RecognizedKinds ==
    {"str", "Path", "PathLike", "bytes", "RawIO", "BufferedIO", "TextIO"}

\* C2: parse_file signals no unsupported-input-type error for an input of
\* one of the five recognized kinds.
C2_RecognizedKindsAccepted ==
    \A t \in Threads :
        (Entry(t) = "parse_file" /\ fr[t].argkind \in RecognizedKinds)
            => fr[t].exc.name # "TypeError"

\* C3: once parse_file has returned or raised, the file it opened is closed.
C3_ResourcesReleased ==
    \A t \in Threads : fr[t].pc \in {"idle", "done"} => fr[t].handle # "open"

C3_Witness ==
    \E t \in Threads :
        /\ fr[t].pc = "done"
        /\ Entry(t) = "parse_file"
        /\ fr[t].handle = "closed"
        /\ fr[t].exc.name = "ParseException"

\* C4: for an input of no recognized kind parse_file raises the
\* unsupported-input-type error, never calls parse_string and returns no
\* node.
C4_UnsupportedInput ==
    \A t \in Threads :
        (Has(fr[t].called, "parse_file") /\ fr[t].argkind \notin RecognizedKinds
            /\ fr[t].pc # "pf")
            => /\ fr[t].exc.name = "TypeError"
               /\ ~Has(fr[t].called, "parse_string")
               /\ fr[t].result = NoResult

C4_Witness ==
    \E t \in Threads :
        /\ fr[t].pc = "done"
        /\ Entry(t) = "parse_file"
        /\ fr[t].argkind = "int"
        /\ fr[t].exc.name = "TypeError"

\* C5: under debug, a parse_string whose grammar parse failed prints the
\* diagnostic and raises that very ParseException; it returns nothing and
\* raises nothing else.
C5_ErrorResignalled ==
    \A t \in Threads :
        (Returned(t) /\ fr[t].opts.debug /\ fr[t].outcome.kind = "ParseException")
            => /\ fr[t].exc = [name |-> "ParseException",
                               lineno |-> fr[t].outcome.lineno,
                               col |-> fr[t].outcome.col]
               /\ fr[t].result = NoResult
               /\ fr[t].printed.lines = Len(fr[t].debug.formatted)

C5_Witness ==
    \E t \in Threads :
        /\ fr[t].pc = "done"
        /\ fr[t].opts.debug
        /\ fr[t].exc.name = "ParseException"
        /\ fr[t].exc.lineno = 2
        /\ fr[t].printed.carets # <<>>

Directives(text) == {i \in 1..Len(text) : text[i] \in {"v1", "v2"}}

\* What the first version directive of a text captures; None without one.
FirstDirective(text) ==
    IF Directives(text) = {} THEN "None"
    ELSE LET i == CHOOSE j \in Directives(text) : \A k \in Directives(text) : j <= k
         IN IF text[i] = "v1" THEN "1" ELSE "2"

\* C6: the version of the node parse_string returns is what the first
\* version directive of the (tab-expanded) text captures, None without one.
C6_VersionIsFirstDirective ==
    \A t \in Threads :
        fr[t].result.kind = "Script"
            => fr[t].result.version = FirstDirective(fr[t].source)

C6_Witness ==
    \E t \in Threads :
        /\ fr[t].pc = "done"
        /\ fr[t].result.kind = "Script"
        /\ fr[t].result.version = "2"
        /\ \E i, j \in 1..Len(fr[t].source) :
            i < j /\ fr[t].source[i] = "v2" /\ fr[t].source[j] = "v1"

\* C7: parse calls parse_string exactly for text that names no existing
\* path and parse_file for every other argument, with the options it was
\* given.
C7_Dispatch ==
    \A t \in Threads :
        (Entry(t) = "parse" /\ fr[t].pc # "parse")
            => /\ Len(fr[t].called) >= 2
               /\ fr[t].called[2] =
                    (IF fr[t].argkind = "str" /\ fr[t].argfs \notin {"file", "dir"}
                     THEN "parse_string" ELSE "parse_file")
               /\ fr[t].passed = fr[t].given

\* The grammar matched no top-level statement.
ZeroStatements(t) ==
    \/ fr[t].outcome.kind = "empty"
    \/ fr[t].outcome.kind = "results" /\ fr[t].outcome.n = 0

\* C8, as claimed: when the grammar yields no statement, parse_string
\* returns a Script node with no statement and no version.
C8_EmptyInputNoVersion ==
    \A t \in Threads :
        (Returned(t) /\ ZeroStatements(t))
            => /\ fr[t].exc = NoExc
               /\ fr[t].result = [kind |-> "Script", body |-> 0, version |-> "None"]

\* C8, amended: when the grammar yields no statement, parse_string returns
\* a Script node with no statement, and with no version when the text has
\* no version directive.
C8_EmptyInput ==
    \A t \in Threads :
        (Returned(t) /\ ZeroStatements(t))
            => /\ fr[t].exc = NoExc
               /\ fr[t].result.kind = "Script"
               /\ fr[t].result.body = 0
               /\ Directives(fr[t].source) = {} => fr[t].result.version = "None"

C8_Witness ==
    \E t \in Threads :
        /\ fr[t].pc = "done"
        /\ fr[t].opts.debug
        /\ fr[t].opts.expand_tabs
        /\ fr[t].source = <<>>
        /\ fr[t].outcome.kind = "empty"
        /\ fr[t].result = [kind |-> "Script", body |-> 0, version |-> "None"]

\* The indent string an indent setting stands for.
IndentOf(indent) ==
    IF indent.tag = "str" THEN indent.s
    ELSE [i \in 1..indent.n |-> " "]

\* How many copies of the indent string a line starts with.
RECURSIVE Copies(_, _)
Copies(line, ind) ==
    IF ind # <<>> /\ StartsWith(line, ind)
    THEN 1 + Copies(SubSeq(line, Len(ind) + 1, Len(line)), ind)
    ELSE 0

\* The lines of a dump, each as its number of indent copies and the rest.
Layout(out, ind) ==
    LET lines == Split(out) IN
    [i \in 1..Len(lines) |->
        LET k == Copies(lines[i], ind) IN
        [ind |-> k, text |-> SubSeq(lines[i], k * Len(ind) + 1, Len(lines[i]))]]

\* A block of lines with a text put before its first line and a comma after
\* its last, its first line indented d times.
Framed(block, before, d) ==
    [i \in 1..Len(block) |->
        [ind |-> IF i = 1 THEN d ELSE block[i].ind,
         text |-> (IF i = 1 THEN before ELSE <<>>) \o block[i].text
                  \o (IF i = Len(block) THEN <<",">> ELSE <<>>)]]

RECURSIVE Concat(_)
Concat(blocks) ==
    IF blocks = <<>> THEN <<>> ELSE Head(blocks) \o Concat(Tail(blocks))

\* The layout C9 states for a value at nesting depth d: a node with fields
\* is "TypeName(", its fields one after the other at depth d + 1, each
\* ending in a comma, and ")" at depth d; a non-empty sequence likewise
\* between "[" and "]"; everything else is one line.
RECURSIVE Stated(_, _)
Stated(value, d) ==
    IF value.tag = "node" /\ Len(value.fields) > 0
    THEN <<[ind |-> 0, text |-> <<value.type, "(">>]>>
         \o Concat([i \in 1..Len(value.fields) |->
                Framed(Stated(value.fields[i].value, d + 1),
                       <<value.fields[i].name, "=">>, d + 1)])
         \o <<[ind |-> d, text |-> <<")">>]>>
    ELSE IF value.tag = "node"
    THEN <<[ind |-> 0, text |-> <<value.type, "(", ")">>]>>
    ELSE IF value.tag = "list" /\ Len(value.items) > 0
    THEN <<[ind |-> 0, text |-> <<"[">>]>>
         \o Concat([i \in 1..Len(value.items) |->
                Framed(Stated(value.items[i], d + 1), <<>>, d + 1)])
         \o <<[ind |-> d, text |-> <<"]">>]>>
    ELSE IF value.tag = "list"
    THEN <<[ind |-> 0, text |-> <<"[", "]">>]>>
    ELSE <<[ind |-> 0, text |-> <<value.repr>>]>>

\* C9: with a non-empty indent dump lays a node with fields out as stated;
\* a node without fields is "TypeName()" under every indent setting.
C9_DumpLayout ==
    dumped.done =>
        /\ Len(dumped.node.fields) = 0
            => dumped.out = <<dumped.node.type, "(", ")">>
        /\ (Len(dumped.node.fields) > 0 /\ IndentOf(dumped.indent) # <<>>)
            => Layout(dumped.out, IndentOf(dumped.indent)) = Stated(dumped.node, 0)

C9_Witness ==
    /\ dumped.done
    /\ dumped.indent = IndentInt(2)
    /\ Len(dumped.node.fields) = 2
    /\ dumped.node.fields[1].value.tag = "node"
    /\ Len(dumped.node.fields[1].value.fields) = 2
    /\ dumped.node.fields[2].value.tag = "list"
    /\ Len(dumped.node.fields[2].value.items) = 2

\* C10, as claimed: whatever the interleaving of parse_string calls, at most
\* one elevation of the ceiling is in flight.
C10_OneElevation == elevations <= 1

\* C10, amended: when only one thread calls parse_string, at most one
\* elevation of the ceiling is in flight, and it is set back before the
\* next one begins.
C10_OneElevationSingleThreaded == sched = "sequential" => elevations <= 1

C10_Witness ==
    /\ sched = "sequential"
    /\ elevations = 1
    /\ fr[MainThread].pc = "rl_exit"
    /\ ceiling # fr[MainThread].ceil0

====
